---- MODULE Spec2Model ----
(***************************************************************************)
(* Model of src/index.ts: the dnstwist MCP server.  One process runs the   *)
(* setup started by the constructor; each CallTool request runs the        *)
(* handler of setupToolHandlers, which is cut at its await points.         *)
(* JavaScript values are records tagged with their typeof; strings are     *)
(* TLA+ strings, so that concatenation, stringification, joining and       *)
(* parsing are computed and not assumed.                                   *)
(***************************************************************************)
EXTENDS Integers, Sequences, FiniteSets, TLC

(* ------------------------------------------------------------------ *)
(* Bounds                                                              *)
(* ------------------------------------------------------------------ *)

\* number of handler invocations the process can hold at once
MaxInv == 2

\* number of properties a request's arguments object holds
MaxProps == 3

Inv == 1..MaxInv

(* ------------------------------------------------------------------ *)
(* JavaScript values                                                   *)
(* ------------------------------------------------------------------ *)

Undefined == [t |-> "undefined"]

Null == [t |-> "object", isNull |-> TRUE]

Str(s) == [t |-> "string", s |-> s]

\* a number, held in tenths: Num(25) is 2.5, Num(500) is 50
Num(x10) == [t |-> "number", x10 |-> x10]

Whole(n) == Num(10 * n)

Bool(b) == [t |-> "boolean", b |-> b]

Obj(props) == [t |-> "object", isNull |-> FALSE, props |-> props]

\* ToBoolean, as `!args` and `if (x)` apply it
Truthy(v) ==
  CASE v.t = "undefined" -> FALSE
    [] v.t = "string" -> v.s # ""
    [] v.t = "number" -> v.x10 # 0
    [] v.t = "boolean" -> v.b
    [] v.t = "object" -> ~v.isNull

(* ------------------------------------------------------------------ *)
(* Strings                                                             *)
(* ------------------------------------------------------------------ *)

StartsWith(s, p) == Len(s) >= Len(p) /\ SubSeq(s, 1, Len(p)) = p

Contains(s, p) ==
  \E i \in 1..(Len(s) + 1) :
    i + Len(p) - 1 <= Len(s) /\ SubSeq(s, i, i + Len(p) - 1) = p

CharAt(s, i) == SubSeq(s, i, i)

Digits == "0123456789"

RECURSIVE NatToString(_)
NatToString(n) ==
  IF n < 10 THEN CharAt(Digits, n + 1)
  ELSE NatToString(n \div 10) \o CharAt(Digits, (n % 10) + 1)

Abs(n) == IF n < 0 THEN -n ELSE n

\* Number.prototype.toString for a number held in tenths
NumberToString(x10) ==
  (IF x10 < 0 THEN "-" ELSE "")
    \o NatToString(Abs(x10) \div 10)
    \o (IF Abs(x10) % 10 = 0 THEN "" ELSE "." \o CharAt(Digits, (Abs(x10) % 10) + 1))

\* Array.prototype.join
RECURSIVE Join(_, _)
Join(toks, sep) ==
  IF Len(toks) = 0 THEN ""
  ELSE IF Len(toks) = 1 THEN toks[1]
  ELSE toks[1] \o sep \o Join(Tail(toks), sep)

(* ------------------------------------------------------------------ *)
(* Constants of the program                                            *)
(* ------------------------------------------------------------------ *)

DOCKER_IMAGE == "elceef/dnstwist"

FormatEnum == <<"json", "csv", "list">>

InSeq(x, s) == \E k \in 1..Len(s) : s[k] = x

(* ------------------------------------------------------------------ *)
(* isFuzzDomainArgs                                                    *)
(* ------------------------------------------------------------------ *)

FieldNames ==
  {"domain", "nameservers", "threads", "format",
   "registered_only", "mxcheck", "ssdeep", "banners"}

\* a.format is compared with === against each member of the list
FormatOk(v) == v.t = "undefined" \/ (v.t = "string" /\ InSeq(v.s, FormatEnum))

\* a check that lets a string through where another type is declared
OptionalOfTypeOrString(v, ty) == v.t = "undefined" \/ v.t = ty \/ v.t = "string"

OptionalOfType(v, ty) == v.t = "undefined" \/ v.t = ty

\* the guard with its first conjunct lost
isFuzzDomainArgsNoDomain(args) ==
  IF ~Truthy(args) \/ args.t # "object" THEN FALSE
  ELSE LET a == args.props IN
    /\ OptionalOfType(a.nameservers, "string")
    /\ OptionalOfType(a.threads, "number")
    /\ FormatOk(a.format)
    /\ OptionalOfType(a.registered_only, "boolean")
    /\ OptionalOfType(a.mxcheck, "boolean")
    /\ OptionalOfType(a.ssdeep, "boolean")
    /\ OptionalOfType(a.banners, "boolean")

isFuzzDomainArgs(args) ==
  IF ~Truthy(args) \/ args.t # "object" THEN FALSE
  ELSE LET a == args.props IN
    /\ a.domain.t = "string"
    /\ OptionalOfType(a.nameservers, "string")
    /\ OptionalOfType(a.threads, "number")
    /\ FormatOk(a.format)
    /\ OptionalOfType(a.registered_only, "boolean")
    /\ OptionalOfType(a.mxcheck, "boolean")
    /\ OptionalOfType(a.ssdeep, "boolean")
    /\ OptionalOfType(a.banners, "boolean")

(* ------------------------------------------------------------------ *)
(* Destructuring with defaults and argument building                   *)
(* ------------------------------------------------------------------ *)

\* `x = d` in a destructuring pattern: d replaces undefined only
OrDefault(v, d) == IF v.t = "undefined" THEN d ELSE v

\* the defaults with that of ssdeep set to true
DestructureSsdeepOn(a) ==
  [domain          |-> a.domain,
   nameservers     |-> OrDefault(a.nameservers, Str("1.1.1.1")),
   threads         |-> OrDefault(a.threads, Whole(50)),
   format          |-> OrDefault(a.format, Str("json")),
   registered_only |-> OrDefault(a.registered_only, Bool(TRUE)),
   mxcheck         |-> OrDefault(a.mxcheck, Bool(TRUE)),
   ssdeep          |-> OrDefault(a.ssdeep, Bool(TRUE)),
   banners         |-> OrDefault(a.banners, Bool(TRUE))]

Destructure(a) ==
  [domain          |-> a.domain,
   nameservers     |-> OrDefault(a.nameservers, Str("1.1.1.1")),
   threads         |-> OrDefault(a.threads, Whole(50)),
   format          |-> OrDefault(a.format, Str("json")),
   registered_only |-> OrDefault(a.registered_only, Bool(TRUE)),
   mxcheck         |-> OrDefault(a.mxcheck, Bool(TRUE)),
   ssdeep          |-> OrDefault(a.ssdeep, Bool(FALSE)),
   banners         |-> OrDefault(a.banners, Bool(TRUE))]

\* the text an element of the argument array has on the command line: what
\* Array.prototype.join makes of it (a string is itself)
ArgString(v) ==
  CASE v.t = "string" -> v.s
    [] v.t = "number" -> NumberToString(v.x10)
    [] v.t = "boolean" -> IF v.b THEN "true" ELSE "false"
    [] v.t = "undefined" -> ""
    [] v.t = "object" -> IF v.isNull THEN "" ELSE "[object Object]"

PushIf(c, toks) == IF c THEN toks ELSE <<>>

\* the builder with -b pushed whatever banners holds
BuildArgsAlwaysBanner(d) ==
  <<ArgString(d.domain), "--format", ArgString(d.format)>>
    \o PushIf(Truthy(d.registered_only), <<"--registered">>)
    \o PushIf(Truthy(d.nameservers), <<"--nameservers", ArgString(d.nameservers)>>)
    \o PushIf(Truthy(d.threads), <<"-t", ArgString(d.threads)>>)
    \o PushIf(Truthy(d.mxcheck), <<"--mxcheck">>)
    \o PushIf(Truthy(d.ssdeep), <<"--ssdeep">>)
    \o <<"-b">>

\* the argument array; threads.toString() is ArgString of a number
BuildArgs(d) ==
  <<ArgString(d.domain), "--format", ArgString(d.format)>>
    \o PushIf(Truthy(d.registered_only), <<"--registered">>)
    \o PushIf(Truthy(d.nameservers), <<"--nameservers", ArgString(d.nameservers)>>)
    \o PushIf(Truthy(d.threads), <<"-t", ArgString(d.threads)>>)
    \o PushIf(Truthy(d.mxcheck), <<"--mxcheck">>)
    \o PushIf(Truthy(d.ssdeep), <<"--ssdeep">>)
    \o PushIf(Truthy(d.banners), <<"-b">>)

RunCommand(args) == "docker run --rm " \o DOCKER_IMAGE \o " " \o Join(args, " ")

(* ------------------------------------------------------------------ *)
(* JSON.parse and JSON.stringify(value, null, 2)                       *)
(* Texts are over an alphabet without backslash, control characters    *)
(* other than newline, and exponents.                                  *)
(* ------------------------------------------------------------------ *)

JNull == [k |-> "null"]

JBool(b) == [k |-> "bool", b |-> b]

JNum(lit) == [k |-> "num", lit |-> lit]

JStr(s) == [k |-> "str", s |-> s]

JArr(items) == [k |-> "arr", items |-> items]

\* members: the own properties in insertion order, each <<key, value>>
JObj(members) == [k |-> "obj", members |-> members]

Ok(v, next) == [ok |-> TRUE, v |-> v, next |-> next]

\* at: the index of the offending character, Len + 1 at the end of the input
Fail(at) == [ok |-> FALSE, at |-> at]

IsDigit(c) == Len(c) = 1 /\ Contains(Digits, c)

Peek(s, i) == IF i <= Len(s) THEN CharAt(s, i) ELSE ""

RECURSIVE SkipWs(_, _)
SkipWs(s, i) ==
  IF Peek(s, i) \in {" ", "\n"} THEN SkipWs(s, i + 1) ELSE i

RECURSIVE SkipDigits(_, _)
SkipDigits(s, i) == IF IsDigit(Peek(s, i)) THEN SkipDigits(s, i + 1) ELSE i

RECURSIVE Mismatch(_, _, _, _)
\* the first index at which s, read from i, departs from word (0: none)
Mismatch(s, i, word, n) ==
  IF n > Len(word) THEN 0
  ELSE IF Peek(s, i + n - 1) = CharAt(word, n) THEN Mismatch(s, i, word, n + 1)
  ELSE i + n - 1

ParseLiteral(s, i, word, v) ==
  LET m == Mismatch(s, i, word, 1) IN
  IF m = 0 THEN Ok(v, i + Len(word)) ELSE Fail(m)

RECURSIVE FindQuote(_, _)
FindQuote(s, i) ==
  IF i > Len(s) THEN i
  ELSE IF CharAt(s, i) = "\"" THEN i
  ELSE FindQuote(s, i + 1)

\* s[i] is the opening quote
ParseString(s, i) ==
  LET q == FindQuote(s, i + 1) IN
  IF q > Len(s) THEN Fail(q) ELSE Ok(JStr(SubSeq(s, i + 1, q - 1)), q + 1)

RECURSIVE StripZeros(_)
StripZeros(f) ==
  IF f # "" /\ CharAt(f, Len(f)) = "0" THEN StripZeros(SubSeq(f, 1, Len(f) - 1))
  ELSE f

\* the text Number.prototype.toString gives for the parsed literal
CanonNumber(neg, whole, frac) ==
  LET f == StripZeros(frac) IN
  (IF neg /\ ~(whole = "0" /\ f = "") THEN "-" ELSE "")
    \o whole \o (IF f = "" THEN "" ELSE "." \o f)

ParseNumber(s, i) ==
  LET neg == Peek(s, i) = "-"
      w0  == IF neg THEN i + 1 ELSE i
      w1  == IF Peek(s, w0) = "0" THEN w0 + 1 ELSE SkipDigits(s, w0)
      f1  == IF Peek(s, w1) = "." THEN SkipDigits(s, w1 + 1) ELSE w1
  IN
  IF w1 = w0 THEN Fail(w0)
  ELSE IF Peek(s, w1) = "." /\ f1 = w1 + 1 THEN Fail(f1)
  ELSE Ok(JNum(CanonNumber(neg, SubSeq(s, w0, w1 - 1),
                           IF f1 > w1 THEN SubSeq(s, w1 + 1, f1 - 1) ELSE "")), f1)

RECURSIVE PutMember(_, _, _)
\* a repeated key keeps its first place and takes the last value
PutMember(members, key, val) ==
  IF Len(members) = 0 THEN <<<<key, val>>>>
  ELSE IF members[1][1] = key THEN <<<<key, val>>>> \o Tail(members)
  ELSE <<members[1]>> \o PutMember(Tail(members), key, val)

RECURSIVE ParseValue(_, _)
RECURSIVE ParseElements(_, _, _)
RECURSIVE ParseMembers(_, _, _)

\* i is past leading white space
ParseValue(s, i) ==
  LET c == Peek(s, i) IN
  IF c = "" THEN Fail(i)
  ELSE IF c = "[" THEN
    LET j == SkipWs(s, i + 1) IN
    IF Peek(s, j) = "]" THEN Ok(JArr(<<>>), j + 1) ELSE ParseElements(s, j, <<>>)
  ELSE IF c = "{" THEN
    LET j == SkipWs(s, i + 1) IN
    IF Peek(s, j) = "}" THEN Ok(JObj(<<>>), j + 1) ELSE ParseMembers(s, j, <<>>)
  ELSE IF c = "\"" THEN ParseString(s, i)
  ELSE IF c = "-" \/ IsDigit(c) THEN ParseNumber(s, i)
  ELSE IF c = "n" THEN ParseLiteral(s, i, "null", JNull)
  ELSE IF c = "t" THEN ParseLiteral(s, i, "true", JBool(TRUE))
  ELSE IF c = "f" THEN ParseLiteral(s, i, "false", JBool(FALSE))
  ELSE Fail(i)

ParseElements(s, i, acc) ==
  LET r == ParseValue(s, i) IN
  IF ~r.ok THEN r
  ELSE LET k == SkipWs(s, r.next)
           c == Peek(s, k)
       IN
       IF c = "," THEN ParseElements(s, SkipWs(s, k + 1), Append(acc, r.v))
       ELSE IF c = "]" THEN Ok(JArr(Append(acc, r.v)), k + 1)
       ELSE Fail(k)

ParseMembers(s, i, acc) ==
  IF Peek(s, i) # "\"" THEN Fail(i)
  ELSE LET key == ParseString(s, i) IN
  IF ~key.ok THEN key
  ELSE LET colon == SkipWs(s, key.next) IN
  IF Peek(s, colon) # ":" THEN Fail(colon)
  ELSE LET r == ParseValue(s, SkipWs(s, colon + 1)) IN
  IF ~r.ok THEN r
  ELSE LET k == SkipWs(s, r.next)
           c == Peek(s, k)
           members == PutMember(acc, key.v.s, r.v)
       IN
       IF c = "," THEN ParseMembers(s, SkipWs(s, k + 1), members)
       ELSE IF c = "}" THEN Ok(JObj(members), k + 1)
       ELSE Fail(k)

JSONParse(s) ==
  LET r == ParseValue(s, SkipWs(s, 1)) IN
  IF ~r.ok THEN r
  ELSE LET e == SkipWs(s, r.next) IN
       IF e <= Len(s) THEN Fail(e) ELSE r

RECURSIVE Spaces(_)
Spaces(n) == IF n = 0 THEN "" ELSE " " \o Spaces(n - 1)

\* the indentation step JSON.stringify(results, null, 2) is called with
IndentStep == 2

RECURSIVE Stringify(_, _)
RECURSIVE StringifyItems(_, _)
RECURSIVE StringifyMembers(_, _)

\* ind: the indentation of the line the value starts on
Stringify(v, ind) ==
  CASE v.k = "null" -> "null"
    [] v.k = "bool" -> IF v.b THEN "true" ELSE "false"
    [] v.k = "num" -> v.lit
    [] v.k = "str" -> "\"" \o v.s \o "\""
    [] v.k = "arr" ->
         IF Len(v.items) = 0 THEN "[]"
         ELSE "[\n" \o StringifyItems(v.items, ind + IndentStep)
                \o "\n" \o Spaces(ind) \o "]"
    [] v.k = "obj" ->
         IF Len(v.members) = 0 THEN "{}"
         ELSE "{\n" \o StringifyMembers(v.members, ind + IndentStep)
                \o "\n" \o Spaces(ind) \o "}"

StringifyItems(items, ind) ==
  Spaces(ind) \o Stringify(items[1], ind)
    \o (IF Len(items) = 1 THEN "" ELSE ",\n" \o StringifyItems(Tail(items), ind))

StringifyMembers(members, ind) ==
  Spaces(ind) \o "\"" \o members[1][1] \o "\": " \o Stringify(members[1][2], ind)
    \o (IF Len(members) = 1 THEN "" ELSE ",\n" \o StringifyMembers(Tail(members), ind))

JSONStringify(v) == Stringify(v, 0)

(* ------------------------------------------------------------------ *)
(* Errors and responses                                                *)
(* ------------------------------------------------------------------ *)

\* an Error object: every value thrown in this program is one
ErrorObj(name, message) == [instanceofError |-> TRUE, name |-> name, message |-> message]

\* String(error), as a template literal applies it
ErrorToString(e) == e.name \o ": " \o e.message

MethodNotFound == -32601

InvalidParams == -32602

\* new McpError(code, message): the SDK prefixes the message with the code
McpError(code, message) ==
  ErrorObj("McpError", "MCP error " \o NumberToString(10 * code) \o ": " \o message)

\* a rejection that names the command and drops what it wrote to stderr
ExecErrorNoStderr(command, stderr) ==
  ErrorObj("Error", "Command failed: " \o command)

\* the rejection of execAsync for a command that exits non-zero
ExecError(command, stderr) ==
  ErrorObj("Error", "Command failed: " \o command \o "\n" \o stderr)

Returned(value) == [outcome |-> "returned", value |-> value]

Threw(error) == [outcome |-> "threw", error |-> error]

NoResponse == [outcome |-> "none"]

TextContent(text) == <<[type |-> "text", text |-> text]>>

ErrorPrefix == "Error executing dnstwist: "

\* a catch block that throws the error on
CatchBlockRethrows(error) == Threw(error)

\* the catch block of the call handler
CatchBlock(error) ==
  LET errorMessage == IF error.instanceofError THEN error.message
                      ELSE ErrorToString(error)
  IN Returned([content |-> TextContent(ErrorPrefix \o errorMessage), isError |-> TRUE])

\* a return that serializes the records last to first
SuccessResponseReversed(results) ==
  Returned([content |-> TextContent(JSONStringify(
    IF results.k = "arr"
    THEN JArr([k \in 1..Len(results.items) |->
                 results.items[Len(results.items) + 1 - k]])
    ELSE results))])

\* the return statement of the try block
SuccessResponse(results) ==
  Returned([content |-> TextContent(JSONStringify(results))])

(* ------------------------------------------------------------------ *)
(* Requests and the environment                                        *)
(* ------------------------------------------------------------------ *)

DomainValues == {Undefined, Str(""), Str("example.com"), Whole(7)}

NameserverValues == {Undefined, Str(""), Str("9.9.9.9"), Whole(9)}

ThreadsValues ==
  {Undefined, Whole(0), Whole(1), Whole(100), Whole(101), Whole(-1), Num(25), Str("50")}

FormatValues == {Undefined, Str("json"), Str("csv"), Str("list"), Str("xml")}

FlagValues == {Undefined, Bool(TRUE), Bool(FALSE), Str("true")}

PropsPresent(a) == {f \in FieldNames : a[f] # Undefined}

ArgumentObjects ==
  {a \in [domain : DomainValues, nameservers : NameserverValues,
           threads : ThreadsValues, format : FormatValues,
           registered_only : FlagValues, mxcheck : FlagValues,
           ssdeep : FlagValues, banners : FlagValues] :
     Cardinality(PropsPresent(a)) <= MaxProps}

OnlyDomain(d) ==
  [f \in FieldNames |-> IF f = "domain" THEN Str(d) ELSE Undefined]

Requests ==
  {[name |-> "fuzz_domain", arguments |-> Obj(a)] : a \in ArgumentObjects}
    \cup {[name |-> "fuzz_domain", arguments |-> v] :
            v \in {Undefined, Null, Str("example.com")}}
    \cup {[name |-> "scan_domain", arguments |-> Obj(OnlyDomain("example.com"))]}

\* what the tool can print on a run that exits with 0, by the --format it was given
ToolStdouts(format) ==
  CASE format = "json" ->
         {"[{\"domain\":\"exarnple.com\",\"fuzzer\":\"homoglyph\"}]",
          "[{\"fuzzer\":\"*original\",\"domain\":\"b.io\",\"dns_a\":[\"1.2.3.4\"]},\n {\"fuzzer\":\"addition\",\"domain\":\"a.io\"}]",
          "[]", "", "[{\"domain\":", "{\"error\":1}"}
    [] format = "csv" -> {"fuzzer,domain\n*original,example.com\n"}
    [] format = "list" -> {"example.com\nexarnple.com\n"}
    [] OTHER -> {""}

\* what a failing command can leave on stderr
ToolStderrs == {"", "no such host"}

(* ------------------------------------------------------------------ *)
(* State                                                               *)
(* ------------------------------------------------------------------ *)

VARIABLES
  docker,   \* whether `docker --version` can succeed on this host
  image,    \* whether the image is in the local image cache
  proc,     \* "running", or "exit1" after process.exit(1)
  boot,     \* the ensureSetup started by the constructor: the command it
            \* awaits, "ready" once it has returned, "failed" once it has thrown
  pc,       \* per invocation: "idle", the command it awaits, or "done"
  req,      \* per invocation: the request being handled
  args,     \* per invocation: the argument list built (<<>>: none built)
  cmds,     \* per invocation: the commands passed to execCommand, in order
  stdout,   \* per invocation: the text `docker run` wrote to stdout (it may
            \* be followed by line feeds: outBytes is the whole size)
  failed,   \* per invocation: the stage that failed ("none": none so far)
  resp,     \* per invocation: how the handler ended
  stderr,   \* per invocation: the stderr of the command that failed
  outBytes, \* per invocation: the number of bytes `docker run` wrote to stdout
  trace     \* per invocation: the stages entered, in order

vars ==
  <<docker, image, proc, boot, pc, req, args, cmds, stdout, failed, resp,
    stderr, outBytes, trace>>

NoRequest == [name |-> "", arguments |-> Undefined]

Init ==
  /\ docker \in BOOLEAN
  /\ image \in BOOLEAN
  /\ proc = "running"
  /\ boot = "version"
  /\ pc = [i \in Inv |-> "idle"]
  /\ req = [i \in Inv |-> NoRequest]
  /\ args = [i \in Inv |-> <<>>]
  /\ cmds = [i \in Inv |-> <<>>]
  /\ stdout = [i \in Inv |-> ""]
  /\ failed = [i \in Inv |-> "none"]
  /\ resp = [i \in Inv |-> NoResponse]
  /\ stderr = [i \in Inv |-> ""]
  /\ outBytes = [i \in Inv |-> 0]
  /\ trace = [i \in Inv |-> <<>>]

(* ------------------------------------------------------------------ *)
(* ensureSetup                                                         *)
(* ------------------------------------------------------------------ *)

VersionCommand == "docker --version"

InspectCommand == "docker image inspect " \o DOCKER_IMAGE

PullCommand == "docker pull " \o DOCKER_IMAGE

DockerMissing ==
  ErrorObj("Error",
    "Docker is not installed or not running. Please install Docker and try again.")

(* ------------------------------------------------------------------ *)
(* The call handler                                                    *)
(* ------------------------------------------------------------------ *)

\* the try block from the tool-name check to the start of `docker run`
\* (no await in between): the error thrown, or the argument list built;
\* entered: the stages gone through
CheckAndBuild(request) ==
  IF request.name # "fuzz_domain"
  THEN [ok |-> FALSE, stage |-> "tool", entered |-> <<>>,
        error |-> McpError(MethodNotFound, "Unknown tool: " \o request.name)]
  ELSE IF ~isFuzzDomainArgs(request.arguments)
  THEN [ok |-> FALSE, stage |-> "validation", entered |-> <<"validation">>,
        error |-> McpError(InvalidParams, "Invalid arguments for fuzz_domain")]
  ELSE [ok |-> TRUE, entered |-> <<"validation", "building">>,
        args |-> BuildArgs(Destructure(request.arguments.props))]

\* the handler ends: the value thrown inside try goes through the catch block
Fails(i, stage, error) ==
  /\ pc' = [pc EXCEPT ![i] = "done"]
  /\ failed' = [failed EXCEPT ![i] = stage]
  /\ resp' = [resp EXCEPT ![i] = CatchBlock(error)]

\* ensureSetup has returned: the rest of the try block up to the next await
Proceed(i) ==
  LET b == CheckAndBuild(req[i]) IN
  IF b.ok
  THEN /\ pc' = [pc EXCEPT ![i] = "run"]
       /\ args' = [args EXCEPT ![i] = b.args]
       /\ cmds' = [cmds EXCEPT ![i] = Append(@, RunCommand(b.args))]
       /\ trace' = [trace EXCEPT ![i] = @ \o b.entered \o <<"execution">>]
       /\ UNCHANGED <<failed, resp>>
  ELSE /\ Fails(i, b.stage, b.error)
       /\ trace' = [trace EXCEPT ![i] = @ \o b.entered]
       /\ UNCHANGED <<args, cmds>>

\* a CallTool request arrives: the handler runs up to its first await
Enter(i, requests) ==
  /\ proc = "running"
  /\ pc[i] = "idle"
  /\ \A j \in Inv : j < i => pc[j] # "idle"
  /\ \E r \in requests : req' = [req EXCEPT ![i] = r]
  /\ pc' = [pc EXCEPT ![i] = "version"]
  /\ cmds' = [cmds EXCEPT ![i] = <<VersionCommand>>]
  /\ trace' = [trace EXCEPT ![i] = <<"setup">>]
  /\ UNCHANGED <<docker, image, proc, boot, args, stdout, failed, resp,
                 stderr, outBytes>>

\* the client has no request outstanding
Quiet == \A j \in Inv : pc[j] = "idle"

\* `docker --version` ends
VersionDone(i) ==
  /\ proc = "running"
  /\ pc[i] = "version"
  /\ IF docker
     THEN /\ pc' = [pc EXCEPT ![i] = "inspect"]
          /\ cmds' = [cmds EXCEPT ![i] = Append(@, InspectCommand)]
          /\ UNCHANGED <<failed, resp>>
     ELSE /\ Fails(i, "setup", DockerMissing)
          /\ UNCHANGED cmds
  /\ UNCHANGED <<docker, image, proc, boot, req, args, stdout, stderr, outBytes,
                 trace>>

\* an ensureSetup that pulls whatever the inspect said
InspectDoneAlwaysPulls(i) ==
  /\ proc = "running"
  /\ pc[i] = "inspect"
  /\ pc' = [pc EXCEPT ![i] = "pull"]
  /\ cmds' = [cmds EXCEPT ![i] = Append(@, PullCommand)]
  /\ UNCHANGED <<args, failed, resp, trace>>
  /\ UNCHANGED <<docker, image, proc, boot, req, stdout, stderr, outBytes>>

\* `docker image inspect` ends
InspectDone(i) ==
  /\ proc = "running"
  /\ pc[i] = "inspect"
  /\ IF image
     THEN Proceed(i)
     ELSE /\ pc' = [pc EXCEPT ![i] = "pull"]
          /\ cmds' = [cmds EXCEPT ![i] = Append(@, PullCommand)]
          /\ UNCHANGED <<args, failed, resp, trace>>
  /\ UNCHANGED <<docker, image, proc, boot, req, stdout, stderr, outBytes>>

\* `docker pull` ends with 0
PullDone(i) ==
  /\ proc = "running"
  /\ pc[i] = "pull"
  /\ image' = TRUE
  /\ Proceed(i)
  /\ UNCHANGED <<docker, proc, boot, req, stdout, stderr, outBytes>>

\* an ensureSetup that tries a failed pull a second time
PullFailsRetries(i) ==
  /\ proc = "running"
  /\ pc[i] = "pull"
  /\ IF Len(cmds[i]) <= 3
     THEN /\ cmds' = [cmds EXCEPT ![i] = Append(@, PullCommand)]
          /\ UNCHANGED <<pc, failed, resp, stderr>>
     ELSE /\ \E e \in ToolStderrs :
               /\ stderr' = [stderr EXCEPT ![i] = e]
               /\ Fails(i, "setup", ExecError(PullCommand, e))
          /\ UNCHANGED cmds
  /\ UNCHANGED <<docker, image, proc, boot, req, args, stdout, outBytes,
                 trace>>

\* `docker pull` fails
PullFails(i) ==
  /\ proc = "running"
  /\ pc[i] = "pull"
  /\ \E e \in ToolStderrs :
       /\ stderr' = [stderr EXCEPT ![i] = e]
       /\ Fails(i, "setup", ExecError(PullCommand, e))
  /\ UNCHANGED <<docker, image, proc, boot, req, args, cmds, stdout, outBytes,
                 trace>>

\* the text of the SyntaxError JSON.parse throws is the engine's: the forms of
\* V8; whole: the text is all of the input (the form that quotes the input
\* quotes a short input whole)
SyntaxErrorMessages(text, at, whole) ==
  IF at > Len(text) THEN {"Unexpected end of JSON input"}
  ELSE {"Unexpected token " \o CharAt(text, at) \o " in JSON at position "
          \o NatToString(at - 1)}
       \cup (IF whole
             THEN {"Unexpected token '" \o CharAt(text, at) \o "', \"" \o text
                     \o "\" is not valid JSON"}
             ELSE {})

\* the inner try/catch around JSON.parse(stdout), then the return
Translate(text, message) ==
  LET r == JSONParse(text) IN
  IF r.ok THEN SuccessResponse(r.v)
  ELSE Threw(ErrorObj("Error", "Failed to parse dnstwist output: "
               \o ErrorToString(ErrorObj("SyntaxError", message))))

\* maxBuffer of execAsync, in bytes
MaxBuffer == 10 * 1024 * 1024

\* a ceiling that the output may not reach
MaxBufferExceededAtCeiling(n) == n >= MaxBuffer

\* exec kills the child and rejects once more than maxBuffer bytes have come
MaxBufferExceeded(n) == n > MaxBuffer

\* the rejection of execAsync for a command that wrote too much
MaxBufferError == ErrorObj("RangeError", "stdout maxBuffer length exceeded")

\* the sizes the output of a run can have: the text alone, or the text and
\* line feeds after it, up to the ceiling and one byte past it
OutputSizes(text) == {Len(text), MaxBuffer, MaxBuffer + 1}

\* `docker run` ends with 0, or is killed for the size of its output
RunDone(i) ==
  /\ proc = "running"
  /\ pc[i] = "run"
  /\ \E out \in ToolStdouts(args[i][3]) : \E n \in OutputSizes(out) :
       /\ stdout' = [stdout EXCEPT ![i] = out]
       /\ outBytes' = [outBytes EXCEPT ![i] = n]
       /\ IF MaxBufferExceeded(n)
          THEN /\ Fails(i, "overflow", MaxBufferError)
               /\ UNCHANGED trace
          ELSE LET r == JSONParse(out) IN
               /\ trace' = [trace EXCEPT ![i] = Append(@, "translation")]
               /\ \E m \in (IF r.ok THEN {""}
                            ELSE SyntaxErrorMessages(out, r.at, n = Len(out))) :
                    LET t == Translate(out, m) IN
                    IF t.outcome = "threw"
                    THEN Fails(i, "parse", t.error)
                    ELSE /\ pc' = [pc EXCEPT ![i] = "done"]
                         /\ resp' = [resp EXCEPT ![i] = t]
                         /\ UNCHANGED failed
  /\ UNCHANGED <<docker, image, proc, boot, req, args, cmds, stderr>>

\* `docker run` fails
RunFails(i) ==
  /\ proc = "running"
  /\ pc[i] = "run"
  /\ \E e \in ToolStderrs :
       /\ stderr' = [stderr EXCEPT ![i] = e]
       /\ Fails(i, "exec", ExecError(cmds[i][Len(cmds[i])], e))
  /\ UNCHANGED <<docker, image, proc, boot, req, args, cmds, stdout, outBytes,
                 trace>>

\* the response is sent and the invocation's values are dropped
Deliver(i) ==
  /\ proc = "running"
  /\ pc[i] = "done"
  /\ pc' = [pc EXCEPT ![i] = "idle"]
  /\ req' = [req EXCEPT ![i] = NoRequest]
  /\ args' = [args EXCEPT ![i] = <<>>]
  /\ cmds' = [cmds EXCEPT ![i] = <<>>]
  /\ stdout' = [stdout EXCEPT ![i] = ""]
  /\ failed' = [failed EXCEPT ![i] = "none"]
  /\ resp' = [resp EXCEPT ![i] = NoResponse]
  /\ stderr' = [stderr EXCEPT ![i] = ""]
  /\ outBytes' = [outBytes EXCEPT ![i] = 0]
  /\ trace' = [trace EXCEPT ![i] = <<>>]
  /\ UNCHANGED <<docker, image, proc, boot>>

(* ------------------------------------------------------------------ *)
(* The setup started by the constructor                                *)
(* ------------------------------------------------------------------ *)

BootVersionDone ==
  /\ proc = "running"
  /\ boot = "version"
  /\ boot' = IF docker THEN "inspect" ELSE "failed"
  /\ UNCHANGED <<docker, image, proc, pc, req, args, cmds, stdout, failed, resp,
                 stderr, outBytes, trace>>

BootInspectDone ==
  /\ proc = "running"
  /\ boot = "inspect"
  /\ boot' = IF image THEN "ready" ELSE "pull"
  /\ UNCHANGED <<docker, image, proc, pc, req, args, cmds, stdout, failed, resp,
                 stderr, outBytes, trace>>

BootPullDone ==
  /\ proc = "running"
  /\ boot = "pull"
  /\ image' = TRUE
  /\ boot' = "ready"
  /\ UNCHANGED <<docker, proc, pc, req, args, cmds, stdout, failed, resp,
                 stderr, outBytes, trace>>

BootPullFails ==
  /\ proc = "running"
  /\ boot = "pull"
  /\ boot' = "failed"
  /\ UNCHANGED <<docker, image, proc, pc, req, args, cmds, stdout, failed, resp,
                 stderr, outBytes, trace>>

\* a catch callback that logs the failure and lets the process run on
BootExitSwallows ==
  /\ proc = "running"
  /\ boot = "failed"
  /\ boot' = "ready"
  /\ UNCHANGED <<docker, image, proc, pc, req, args, cmds, stdout, failed, resp,
                 stderr, outBytes, trace>>

\* the catch callback of the constructor: process.exit(1)
BootExit ==
  /\ proc = "running"
  /\ boot = "failed"
  /\ proc' = "exit1"
  /\ UNCHANGED <<docker, image, boot, pc, req, args, cmds, stdout, failed, resp,
                 stderr, outBytes, trace>>

Next ==
  \/ BootVersionDone
  \/ BootInspectDone
  \/ BootPullDone
  \/ BootPullFails
  \/ BootExit
  \/ Quiet /\ \E i \in Inv : Enter(i, Requests)
  \/ \E i \in Inv : VersionDone(i)
  \/ \E i \in Inv : InspectDone(i)
  \/ \E i \in Inv : PullDone(i)
  \/ \E i \in Inv : PullFails(i)
  \/ \E i \in Inv : RunDone(i)
  \/ \E i \in Inv : RunFails(i)
  \/ \E i \in Inv : Deliver(i)

\* a client that sends a request once the response to the one before has come
Spec == Init /\ [][Next]_vars

(* ------------------------------------------------------------------ *)
(* A client that does not wait                                         *)
(* ------------------------------------------------------------------ *)

\* the requests of the client that sends without waiting for responses
ConcRequests ==
  {[name |-> "fuzz_domain", arguments |-> Obj(OnlyDomain("example.com"))],
   [name |-> "fuzz_domain", arguments |-> Undefined]}

\* the server calls the handler for each request as it arrives: the handler
\* of an earlier request may be at any of its awaits
NextConc ==
  \/ BootVersionDone
  \/ BootInspectDone
  \/ BootPullDone
  \/ BootPullFails
  \/ BootExit
  \/ \E i \in Inv : Enter(i, ConcRequests)
  \/ \E i \in Inv : VersionDone(i)
  \/ \E i \in Inv : InspectDone(i)
  \/ \E i \in Inv : PullDone(i)
  \/ \E i \in Inv : PullFails(i)
  \/ \E i \in Inv : RunDone(i)
  \/ \E i \in Inv : RunFails(i)
  \/ \E i \in Inv : Deliver(i)

SpecConc == Init /\ [][NextConc]_vars

\* a command that was started ends, and a callback that is due runs
LiveSpec ==
  /\ SpecConc
  /\ WF_vars(BootVersionDone)
  /\ WF_vars(BootExit)

(* ------------------------------------------------------------------ *)
(* The command line as the shell reads it                              *)
(* ------------------------------------------------------------------ *)

\* exec hands the command string to /bin/sh: unquoted, a space ends a word
\* and `;` ends a command. The commands of a line, each a sequence of words.
\* the first position from `at` on that holds a space or a `;` (one past the
\* end: none)
NextSeparator(line, at) ==
  LET S == {k \in at..Len(line) : CharAt(line, k) \in {" ", ";"}}
  IN IF S = {} THEN Len(line) + 1 ELSE CHOOSE k \in S : \A l \in S : k <= l

RECURSIVE ShellScan(_, _, _, _)
ShellScan(line, at, words, commands) ==
  LET e == NextSeparator(line, at)
      w == IF e = at THEN words ELSE Append(words, SubSeq(line, at, e - 1))
  IN IF e > Len(line)
     THEN IF w = <<>> THEN commands ELSE Append(commands, w)
     ELSE IF CharAt(line, e) = " " THEN ShellScan(line, e + 1, w, commands)
     ELSE ShellScan(line, e + 1, <<>>,
                    IF w = <<>> THEN commands ELSE Append(commands, w))

ShellCommands(line) == ShellScan(line, 1, <<>>, <<>>)

\* the words before the tool's arguments in `docker run --rm <image> ...`
RunPrefix == <<"docker", "run", "--rm", DOCKER_IMAGE>>

\* the argument vector the tool is started with by the line
ReceivedArgs(line) ==
  LET first == ShellCommands(line)[1]
  IN SubSeq(first, Len(RunPrefix) + 1, Len(first))

\* requests whose strings hold a space or a `;`
ShellDomains == {"example.com", "a.io b.io", "a.io;id"}

ShellNameservers == {Undefined, Str("9.9.9.9"), Str("9.9.9.9 --all")}

ShellRequests ==
  {[name |-> "fuzz_domain",
    arguments |-> Obj([OnlyDomain(d) EXCEPT !.nameservers = n])] :
      d \in ShellDomains, n \in ShellNameservers}

NextShell ==
  \/ BootVersionDone
  \/ BootInspectDone
  \/ BootPullDone
  \/ BootPullFails
  \/ BootExit
  \/ Quiet /\ \E i \in Inv : Enter(i, ShellRequests)
  \/ \E i \in Inv : VersionDone(i)
  \/ \E i \in Inv : InspectDone(i)
  \/ \E i \in Inv : PullDone(i)
  \/ \E i \in Inv : PullFails(i)
  \/ \E i \in Inv : RunDone(i)
  \/ \E i \in Inv : RunFails(i)
  \/ \E i \in Inv : Deliver(i)

\* a client that sends such requests, one at a time
SpecShell == Init /\ [][NextShell]_vars

(* ------------------------------------------------------------------ *)
(* Properties                                                          *)
(* ------------------------------------------------------------------ *)

Done(i) == pc[i] = "done"

Text(i) == resp[i].value.content[1].text

IsErrorResponse(i) ==
  /\ resp[i].outcome = "returned"
  /\ "isError" \in DOMAIN resp[i].value
  /\ resp[i].value.isError = TRUE

IsSuccessResponse(i) ==
  /\ resp[i].outcome = "returned"
  /\ "isError" \notin DOMAIN resp[i].value

\* the invocation passed isFuzzDomainArgs: an argument list was built
Validated(i) == args[i] # <<>>

IssuedRun(i) ==
  \E k \in 1..Len(cmds[i]) : StartsWith(cmds[i][k], "docker run")

Props(i) == req[i].arguments.props

HasProps(i) == req[i].arguments.t = "object" /\ ~req[i].arguments.isNull

\* the value a field has after the documented defaults
Effective(i, f, default) == IF Props(i)[f] = Undefined THEN default ELSE Props(i)[f]

InvalidParamsText ==
  "Error executing dnstwist: MCP error -32602: Invalid arguments for fuzz_domain"

\* C1: an invocation that ends has returned, never thrown, one text item; if
\* any stage failed (setup, tool name, validation, execution, parsing) the
\* text starts with 'Error executing dnstwist: ' and isError is true; if none
\* failed the response has no isError.
C1_FailuresAreErrorResponses ==
  \A i \in Inv :
    Done(i) =>
      /\ resp[i].outcome = "returned"
      /\ Len(resp[i].value.content) = 1
      /\ resp[i].value.content[1].type = "text"
      /\ (failed[i] # "none" \/ ~docker \/ req[i].name # "fuzz_domain"
            \/ ~isFuzzDomainArgs(req[i].arguments) \/ ~IssuedRun(i)
            \/ ~JSONParse(stdout[i]).ok)
           => IsErrorResponse(i) /\ StartsWith(Text(i), ErrorPrefix)
      /\ failed[i] = "none" => IsSuccessResponse(i)

C1_Witness ==
  \E i \in Inv :
    /\ Done(i) /\ failed[i] = "exec" /\ IsErrorResponse(i)
    /\ StartsWith(Text(i), "Error executing dnstwist: Command failed: docker run")

\* a request that lacks domain or holds one that is no string
BadDomain(i) == ~HasProps(i) \/ Props(i).domain.t # "string"

\* C2: a fuzz_domain request without a string `domain` never has an argument
\* list built or a `docker run` issued, and once setup has passed it ends with
\* the invalid-arguments error.
C2_BadDomainNeverBuilt ==
  \A i \in Inv :
    (pc[i] # "idle" /\ req[i].name = "fuzz_domain" /\ BadDomain(i)) =>
      /\ ~Validated(i)
      /\ pc[i] # "run"
      /\ ~IssuedRun(i)
      /\ Done(i) => \/ failed[i] = "setup"
                    \/ /\ failed[i] = "validation"
                       /\ IsErrorResponse(i)
                       /\ Text(i) = InvalidParamsText

C2_Witness ==
  \E i \in Inv :
    /\ Done(i) /\ req[i].name = "fuzz_domain" /\ HasProps(i)
    /\ Props(i).domain = Undefined /\ Props(i).format = Str("csv")
    /\ failed[i] = "validation" /\ Text(i) = InvalidParamsText

\* an optional field that is present with a value outside its declared type
BadOptional(i) ==
  /\ HasProps(i)
  /\ \/ Props(i).nameservers.t \notin {"undefined", "string"}
     \/ Props(i).threads.t \notin {"undefined", "number"}
     \/ Props(i).format \notin {Undefined, Str("json"), Str("csv"), Str("list")}
     \/ \E f \in {"registered_only", "mxcheck", "ssdeep", "banners"} :
          Props(i)[f].t \notin {"undefined", "boolean"}

\* C3: a fuzz_domain request whose format is outside {json, csv, list} or
\* which holds an optional field of the wrong type (a numeric string for
\* threads) is rejected as it stands: no argument list is built from it, no
\* `docker run` is issued, and once setup has passed it ends with the
\* invalid-arguments error.
C3_BadOptionalRejected ==
  \A i \in Inv :
    (pc[i] # "idle" /\ req[i].name = "fuzz_domain" /\ BadOptional(i)) =>
      /\ ~Validated(i)
      /\ pc[i] # "run"
      /\ ~IssuedRun(i)
      /\ Done(i) => \/ failed[i] = "setup"
                    \/ /\ failed[i] = "validation"
                       /\ IsErrorResponse(i)
                       /\ Text(i) = InvalidParamsText

C3_Witness ==
  \E i \in Inv :
    /\ Done(i) /\ req[i].name = "fuzz_domain" /\ HasProps(i)
    /\ Props(i).domain = Str("example.com") /\ Props(i).threads = Str("50")
    /\ failed[i] = "validation" /\ ~Validated(i)

FlagOff(i, f, default) == Effective(i, f, Bool(default)) = Bool(FALSE)

DefaultArgs(d) ==
  <<d, "--format", "json", "--registered", "--nameservers", "1.1.1.1",
    "-t", "50", "--mxcheck", "-b">>

\* C5: a request that holds only `domain` gets every documented default
\* before the list is built: for 'example.com' the list is exactly
\* example.com --format json --registered --nameservers 1.1.1.1 -t 50
\* --mxcheck -b.
C5_DefaultsApplied ==
  \A i \in Inv :
    (Validated(i) /\ PropsPresent(Props(i)) = {"domain"}) =>
      /\ args[i] = DefaultArgs(Props(i).domain.s)
      /\ Props(i).domain = Str("example.com") =>
           args[i] = <<"example.com", "--format", "json", "--registered",
                       "--nameservers", "1.1.1.1", "-t", "50", "--mxcheck", "-b">>

C5_Witness ==
  \E i \in Inv :
    /\ pc[i] = "run"
    /\ Props(i) = OnlyDomain("example.com")
    /\ args[i] = DefaultArgs("example.com")

\* the `docker run` of the invocation has ended with 0
RunSucceeded(i) ==
  Done(i) /\ Validated(i) /\ failed[i] \notin {"exec", "setup", "overflow"}

\* a request whose domain is not empty and whose threads value, if any, is a
\* whole number from 1 to 100
InDeclaredDomain(i) ==
  /\ Props(i).domain.s # ""
  /\ Effective(i, "threads", Whole(50)) \in {Whole(1), Whole(50), Whole(100)}

\* C6: (the claim as stated) when the format is csv or list and the run
\* succeeds, the response is a success whose text is the raw stdout.  Stated
\* for requests within their declared domain.
C6_RawPassThrough ==
  \A i \in Inv :
    (RunSucceeded(i) /\ InDeclaredDomain(i) /\ args[i][3] \in {"csv", "list"}) =>
      IsSuccessResponse(i) /\ Text(i) = stdout[i]

\* C7: (the claim as stated) a validated request holds a threads value that
\* is a whole number from 1 to 100, or the default 50.  Stated for requests
\* with a non-empty domain.
C7_ThreadsInRange ==
  \A i \in Inv :
    (Validated(i) /\ Props(i).domain.s # "") =>
      LET t == Effective(i, "threads", Whole(50)) IN
      /\ t.x10 % 10 = 0
      /\ 10 <= t.x10 /\ t.x10 <= 1000

\* C8: (the claim as stated) a validated request holds a non-empty domain.
C8_DomainNonEmpty ==
  \A i \in Inv : Validated(i) => Props(i).domain.s # ""

\* the tokens the mapping table prescribes after the prefix
TableTail(i) ==
  (IF Effective(i, "registered_only", Bool(TRUE)).b THEN <<"--registered">> ELSE <<>>)
    \o (LET ns == Effective(i, "nameservers", Str("1.1.1.1")).s IN
        IF ns # "" THEN <<"--nameservers", ns>> ELSE <<>>)
    \o <<"-t", NumberToString(Effective(i, "threads", Whole(50)).x10)>>
    \o (IF Effective(i, "mxcheck", Bool(TRUE)).b THEN <<"--mxcheck">> ELSE <<>>)
    \o (IF Effective(i, "ssdeep", Bool(FALSE)).b THEN <<"--ssdeep">> ELSE <<>>)
    \o (IF Effective(i, "banners", Bool(TRUE)).b THEN <<"-b">> ELSE <<>>)

\* C9: (the claim as stated) after the prefix the list holds exactly the
\* tokens of the mapping table, in its order, with '-t' and the stringified
\* threads for every request.  Stated for requests with a non-empty domain.
C9_TailIsTable ==
  \A i \in Inv :
    (Validated(i) /\ Props(i).domain.s # "") => SubSeq(args[i], 4, Len(args[i])) = TableTail(i)

\* C10: (the claim as stated) when the format is json and stdout does not
\* parse, the response is an error whose text includes the raw stdout.
\* Stated for requests within their declared domain.
C10_ParseErrorCarriesStdout ==
  \A i \in Inv :
    (RunSucceeded(i) /\ InDeclaredDomain(i) /\ args[i][3] = "json"
       /\ ~JSONParse(stdout[i]).ok) =>
      IsErrorResponse(i) /\ Contains(Text(i), stdout[i])

\* the text of the response after the prefix
AfterPrefix(i) == SubSeq(Text(i), Len(ErrorPrefix) + 1, Len(Text(i)))

\* C11: when `docker run` fails, the response is an error whose text is
\* 'Error executing dnstwist: ' followed by a message that holds the stderr
\* of the failed command, and the output is never parsed.
C11_ExecFailureCarriesStderr ==
  \A i \in Inv :
    (Done(i) /\ failed[i] = "exec") =>
      /\ IsErrorResponse(i)
      /\ StartsWith(Text(i), ErrorPrefix)
      /\ Contains(AfterPrefix(i), stderr[i])
      /\ AfterPrefix(i) =
           "Command failed: " \o RunCommand(args[i]) \o "\n" \o stderr[i]
      /\ ~InSeq("translation", trace[i])
      /\ ~Contains(Text(i), "Failed to parse")

C11_Witness ==
  \E i \in Inv :
    /\ Done(i) /\ failed[i] = "exec" /\ stderr[i] = "no such host"
    /\ IsErrorResponse(i)
    /\ Contains(Text(i), "no such host")

\* the commands of ensureSetup come in their order within one call
SetupOrder(i) ==
  \A k \in 1..Len(cmds[i]) :
    /\ cmds[i][k] = InspectCommand => k = 2 /\ cmds[i][1] = VersionCommand
    /\ cmds[i][k] = PullCommand =>
         k = 3 /\ cmds[i][1] = VersionCommand /\ cmds[i][2] = InspectCommand

\* a step that starts a `docker pull`, in a handler or in the constructor's setup
StartsPull(i) == pc[i] # "pull" /\ pc'[i] = "pull"

BootStartsPull == boot # "pull" /\ boot' = "pull"

\* C12: ensureSetup issues `docker pull` only after `docker --version`
\* succeeded and `docker image inspect` failed in the same call; no call
\* starts a pull while the image is present; a pull that succeeds leaves the
\* image present, and it stays present, so no later call pulls.
C12_PullOnlyWhenAbsent ==
  /\ [](\A i \in Inv : SetupOrder(i))
  /\ [][/\ \A i \in Inv :
             /\ StartsPull(i) => ~image /\ docker /\ pc[i] = "inspect"
             /\ (pc[i] = "pull" /\ pc'[i] # "pull" /\ failed'[i] # "setup") => image'
        /\ BootStartsPull => ~image /\ docker /\ boot = "inspect"
        /\ (boot = "pull" /\ boot' = "ready") => image'
        /\ image => image']_vars

C12_Witness ==
  \E i \in Inv :
    /\ image /\ pc[i] = "run"
    /\ cmds[i][3] = PullCommand
    /\ boot = "ready"

\* `docker run` has ended, by itself with 0 or killed for its output
RunEnded(i) == Done(i) /\ Validated(i) /\ failed[i] \notin {"exec", "setup"}

\* C13: a run whose output is exactly 10 MiB succeeds and all of it goes to
\* the translation; a run whose output is one byte more ends as the error
\* response 'stdout maxBuffer length exceeded'; no success response comes
\* from an output over the ceiling.
C13_CeilingBoundary ==
  \A i \in Inv :
    RunEnded(i) =>
      /\ outBytes[i] = 10 * 1024 * 1024 =>
           /\ failed[i] # "overflow"
           /\ trace[i][Len(trace[i])] = "translation"
           /\ JSONParse(stdout[i]).ok =>
                /\ IsSuccessResponse(i)
                /\ Text(i) = JSONStringify(JSONParse(stdout[i]).v)
      /\ outBytes[i] = 10 * 1024 * 1024 + 1 =>
           /\ failed[i] = "overflow"
           /\ IsErrorResponse(i)
           /\ Text(i) = "Error executing dnstwist: stdout maxBuffer length exceeded"
           /\ ~InSeq("translation", trace[i])
      /\ IsSuccessResponse(i) => outBytes[i] <= 10 * 1024 * 1024

C13_Witness ==
  \E i \in Inv :
    /\ RunEnded(i) /\ outBytes[i] = MaxBuffer
    /\ IsSuccessResponse(i)
    /\ Len(JSONParse(stdout[i]).v.items) = 2

\* the value the tool printed, when its stdout is JSON
Printed(i) == JSONParse(stdout[i]).v

\* a json run that printed an array and was not cut short
PrintedArray(i) ==
  /\ RunEnded(i) /\ failed[i] # "overflow" /\ args[i][3] = "json"
  /\ JSONParse(stdout[i]).ok
  /\ Printed(i).k = "arr"

Keys(record) == [k \in 1..Len(record.members) |-> record.members[k][1]]

\* C14: for a json run that printed an array of records, the response is a
\* success whose text, read back, is that array: as many records, in the
\* tool's order, each with exactly its fields in their order and with their
\* values; the text is the two-space pretty print.
C14_RecordsRoundTrip ==
  \A i \in Inv :
    PrintedArray(i) =>
      /\ IsSuccessResponse(i)
      /\ LET back == JSONParse(Text(i)) IN
         /\ back.ok
         /\ back.v.k = "arr"
         /\ Len(back.v.items) = Len(Printed(i).items)
         /\ \A k \in 1..Len(Printed(i).items) :
              /\ back.v.items[k] = Printed(i).items[k]
              /\ Printed(i).items[k].k = "obj" =>
                   Keys(back.v.items[k]) = Keys(Printed(i).items[k])
      /\ ~Contains(stdout[i], "null") => ~Contains(Text(i), "null")
      /\ stdout[i] = "[{\"domain\":\"exarnple.com\",\"fuzzer\":\"homoglyph\"}]" =>
           Text(i) = "[\n  {\n    \"domain\": \"exarnple.com\",\n    \"fuzzer\": \"homoglyph\"\n  }\n]"

C14_Witness ==
  \E i \in Inv :
    /\ PrintedArray(i) /\ Len(Printed(i).items) = 2
    /\ Keys(JSONParse(Text(i)).v.items[1]) = <<"fuzzer", "domain", "dns_a">>
    /\ Keys(JSONParse(Text(i)).v.items[2]) = <<"fuzzer", "domain">>

InProgress(i) == pc[i] # "idle"

\* C15: (the claim as stated) no two invocations are in progress at once.
C15_OneAtATime ==
  \A i, j \in Inv : (InProgress(i) /\ InProgress(j)) => i = j

\* C16: a failure of the setup started at process start ends the process
\* with exit code 1 (Docker unavailable: eventually; a failed version check
\* or pull: eventually), and nothing else ends it: a setup failure inside an
\* invocation leaves the process running and is an error response.
C16_BootFailureExits ==
  /\ (~docker) ~> (proc = "exit1")
  /\ (boot = "failed") ~> (proc = "exit1")
  /\ [][/\ proc' # proc => (boot = "failed" /\ proc' = "exit1")
        /\ \A i \in Inv :
             (failed[i] # "setup" /\ failed'[i] = "setup") =>
               /\ proc' = proc
               /\ pc'[i] = "done"
               /\ resp'[i].outcome = "returned"
               /\ resp'[i].value.isError = TRUE
               /\ StartsWith(resp'[i].value.content[1].text, ErrorPrefix)]_vars

C16_Witness ==
  /\ proc = "exit1" /\ boot = "failed" /\ image = FALSE /\ docker
  /\ \E i \in Inv : Done(i) /\ failed[i] = "setup" /\ IsErrorResponse(i)

\* the stages of one invocation, in the order of the handler
Stages == <<"setup", "validation", "building", "execution", "translation">>

IsPrefix(s, t) == Len(s) <= Len(t) /\ SubSeq(t, 1, Len(s)) = s

\* the positions of cmds[i] that hold a `docker run`
RunsIssued(i) ==
  {k \in 1..Len(cmds[i]) : StartsWith(cmds[i][k], "docker run ")}

NoCommandTwice(i) ==
  \A k, l \in 1..Len(cmds[i]) : cmds[i][k] = cmds[i][l] => k = l

\* the stages entered by an invocation that failed at the given stage
StagesUpTo(stage) ==
  CASE stage = "setup"      -> {SubSeq(Stages, 1, 1)}
    [] stage = "tool"       -> {SubSeq(Stages, 1, 1)}
    [] stage = "validation" -> {SubSeq(Stages, 1, 2)}
    [] stage = "exec"       -> {SubSeq(Stages, 1, 4)}
    [] stage = "overflow"   -> {SubSeq(Stages, 1, 4)}
    [] stage = "parse"      -> {SubSeq(Stages, 1, 5)}
    [] OTHER                -> {}

\* C17: the stages of an invocation are entered in the order setup,
\* validation, building, execution, translation, each at most once;
\* `docker run` is issued at most once, as the last command, after the
\* version check and the inspect (and the pull, if any) of this invocation
\* succeeded and the arguments were validated; no command is issued twice;
\* an invocation in which a stage failed has ended with the stages up to the
\* failed one and nothing after it.
C17_StagesInOrderOnce ==
  \A i \in Inv :
    /\ IsPrefix(trace[i], Stages)
    /\ NoCommandTwice(i)
    /\ Cardinality(RunsIssued(i)) <= 1
    /\ RunsIssued(i) # {} =>
         /\ RunsIssued(i) = {Len(cmds[i])}
         /\ cmds[i][1] = VersionCommand /\ cmds[i][2] = InspectCommand
         /\ Len(cmds[i]) \in {3, 4}
         /\ Len(cmds[i]) = 4 => cmds[i][3] = PullCommand
         /\ docker /\ image
         /\ req[i].name = "fuzz_domain"
         /\ isFuzzDomainArgs(req[i].arguments)
         /\ IsPrefix(SubSeq(Stages, 1, 4), trace[i])
    /\ (Len(trace[i]) >= 4) = (RunsIssued(i) # {})
    /\ pc[i] = "run" => trace[i] = SubSeq(Stages, 1, 4) /\ failed[i] = "none"
    /\ failed[i] # "none" =>
         /\ pc[i] = "done"
         /\ trace[i] \in StagesUpTo(failed[i])
    /\ IsSuccessResponse(i) => trace[i] = Stages

C17_Witness ==
  \E i \in Inv :
    /\ Done(i) /\ IsSuccessResponse(i)
    /\ trace[i] = Stages
    /\ Len(cmds[i]) = 4 /\ cmds[i][3] = PullCommand
    /\ RunsIssued(i) = {4}

\* the number of `docker pull` commands started and not ended
PullsInFlight ==
  (IF boot = "pull" THEN 1 ELSE 0) + Cardinality({i \in Inv : pc[i] = "pull"})

\* C18: at most one `docker pull` of the image is in flight at any time: the
\* setup started by the constructor and the setup of a request handler do
\* not both pull the image.
C18_OnePullInFlight == PullsInFlight <= 1

\* C19: (the claim as stated) for a validated request with a non-empty
\* domain and non-empty nameservers, the command line started is one command
\* and the tool receives the built list, one argument for each token.
C19_ReceivedIsBuilt ==
  \A i \in Inv :
    (/\ IssuedRun(i)
     /\ Props(i).domain.s # ""
     /\ Props(i).nameservers \in {Undefined, Str("9.9.9.9"), Str("9.9.9.9 --all")})
    => LET line == cmds[i][Len(cmds[i])] IN
       /\ Len(ShellCommands(line)) = 1
       /\ ReceivedArgs(line) = args[i]

\* C20: (the claim as stated) a json run whose response is a success printed
\* an array and the response text is an array; a json run that printed JSON
\* other than an array has an error response.
C20_JsonSuccessIsArray ==
  \A i \in Inv :
    (/\ RunEnded(i) /\ args[i][3] = "json"
     /\ InDeclaredDomain(i)
     /\ outBytes[i] = Len(stdout[i])) =>
      /\ IsSuccessResponse(i) =>
           /\ Printed(i).k = "arr"
           /\ JSONParse(Text(i)).v.k = "arr"
      /\ (JSONParse(stdout[i]).ok /\ Printed(i).k # "arr") => IsErrorResponse(i)
====
